---------------------------- MODULE Spec2Model ----------------------------
(***************************************************************************)
(* HTTP request relay (Sourabhpargai1234/BackendFinal).                    *)
(*                                                                         *)
(* The repository holds three versions of the same single-endpoint relay:  *)
(*   "server" : src/server.js                                              *)
(*   "v1"     : src/unnamed/part_000, lines 1-137   (first variant)        *)
(*   "v3"     : src/unnamed/part_000, lines 138-362 (third variant)        *)
(* `variant` says which of them is the running program.  One inbound       *)
(* request is followed through the middleware chain of that program: body  *)
(* parser, content-type check, body parsing, express-validator chain, the  *)
(* proxy handler, the outbound axios call and its continuation.            *)
(*                                                                         *)
(* JavaScript values are modelled as tagged records; a string that the     *)
(* code splits or trims is a sequence of tokens in which ":" and " " are   *)
(* tokens of their own and every other token is a run of characters        *)
(* holding neither.  Library calls (express-validator, validator.js,       *)
(* JSON.parse, axios) are modelled by their documented behaviour on the    *)
(* inputs enumerated here.  The rate limiter, helmet and CORS middleware   *)
(* are left out: they never touch the envelope or the outbound call.       *)
(***************************************************************************)
EXTENDS Integers, Sequences, FiniteSets, TLC

VARIABLES
    variant,       \* which program of the repository is running
    isProduction,  \* process.env.NODE_ENV === 'production'
    pc,            \* position of the request in the middleware chain
    req,           \* the inbound request: content type, raw body, size
    parsedBody,    \* req.parsedBody / input, once decoded
    responses,     \* inbound responses sent for the current request
    calls,         \* axios configs handed to axios for the current request
    outcome,       \* how the outbound call ended
    thrown,        \* the error passed to next(err), if any
    fn             \* helper-function application (HelperSpec only)

vars == <<variant, isProduction, pc, req, parsedBody, responses, calls, outcome, thrown, fn>>

Variants == {"server", "v1", "v3"}

(***************************************************************************)
(* Bounds of the helper-function specification.                            *)
(***************************************************************************)
MaxHeaderItems == 2

(***************************************************************************)
(* JavaScript values.                                                      *)
(***************************************************************************)
Undefined == "<undefined>"
NumberFive == "<number 5>"

IsString(v) == v \notin {Undefined, NumberFive}

Truthy(v) == v # Undefined /\ v # ""

\* String.prototype.toUpperCase on the method strings used here.
ToUpperCase(m) ==
    CASE m = "get"  -> "GET"
      [] m = "Post" -> "POST"
      [] m = "head" -> "HEAD"
      [] m = "foo"  -> "FOO"
      [] OTHER      -> m

AllowedMethods == {"GET", "POST", "PUT", "PATCH", "DELETE", "HEAD", "OPTIONS"}

\* Body values (api.body).
BAbsent == [t |-> "undefined", s |-> "", o |-> {}]
BNull == [t |-> "null", s |-> "", o |-> {}]
BObj(fields) == [t |-> "object", s |-> "", o |-> fields]
BStr(str) == [t |-> "string", s |-> str, o |-> {}]
NoBody == [t |-> "none", s |-> "", o |-> {}]

JsonObjText == "{\"a\":1}"
NotJsonText == "not json"

\* JSON.parse on the strings used here: the parsed value, or "throws".
JsonTexts == {JsonObjText, "{}"}

JsonParse(str) ==
    CASE str = JsonObjText -> BObj({<<"a", 1>>})
      [] str = "{}"        -> BObj({})
      [] OTHER             -> BStr(str)


\* Helper function to safely parse JSON.
tryParseJson(str) ==
    IF str \in JsonTexts THEN JsonParse(str) ELSE BStr(str)

(***************************************************************************)
(* Strings of the header list, as token sequences.                         *)
(***************************************************************************)
HeaderStrings ==
    { <<"Content-Type", ":", " ", "text/plain">>,
      <<"X-Trace", ":", "abc", ":", "def">>,
      <<"nocolon">>,
      <<"A", ":", " ", "1">>,
      <<" ", "A", " ", ":", "2", " ">> }

Includes(h, tok) == \E i \in 1..Len(h) : h[i] = tok

FirstIndex(h, tok) == CHOOSE i \in 1..Len(h) : h[i] = tok /\ \A j \in 1..(i-1) : h[j] # tok

\* String.prototype.split(':'): the pieces between the colons.
RECURSIVE Split(_)
Split(h) ==
    IF ~Includes(h, ":") THEN <<h>>
    ELSE <<SubSeq(h, 1, FirstIndex(h, ":") - 1)>>
         \o Split(SubSeq(h, FirstIndex(h, ":") + 1, Len(h)))

\* Array.prototype.join(':').
RECURSIVE Join(_)
Join(parts) ==
    IF Len(parts) = 0 THEN <<>>
    ELSE IF Len(parts) = 1 THEN parts[1]
    ELSE parts[1] \o <<":">> \o Join(Tail(parts))

\* String.prototype.trim().
RECURSIVE TrimLeft(_)
TrimLeft(s) == IF Len(s) > 0 /\ s[1] = " " THEN TrimLeft(Tail(s)) ELSE s

RECURSIVE TrimRight(_)
TrimRight(s) ==
    IF Len(s) > 0 /\ s[Len(s)] = " " THEN TrimRight(SubSeq(s, 1, Len(s) - 1)) ELSE s

Trim(s) == TrimRight(TrimLeft(s))

(***************************************************************************)
(* A JavaScript object used as a header mapping: a set of <<name, value>>  *)
(* pairs with one pair per name.                                           *)
(***************************************************************************)
Has(m, k) == \E p \in m : p[1] = k

Get(m, k) == (CHOOSE p \in m : p[1] = k)[2]

Put(m, k, v) == {p \in m : p[1] # k} \cup {<<k, v>>}

\* !headers[k]: the property is absent or holds the empty string.
Falsy(m, k) == ~Has(m, k) \/ Get(m, k) = <<>>

\* api.header as decoded.
HAbsent == [kind |-> "undefined", items |-> <<>>, entries |-> {}]
HList(items) == [kind |-> "list", items |-> items, entries |-> {}]
HMap(entries) == [kind |-> "map", items |-> <<>>, entries |-> entries]

KAccept == <<"Accept">>
KContentType == <<"Content-Type">>
KContentTypeLower == <<"content-type">>
VJson == <<"application/json">>

\* rawHeaders.forEach(h => { if (h.includes(':')) { const [key, ...value] =
\* h.split(':'); headers[key.trim()] = value.join(':').trim(); } })
RECURSIVE forEachHeader(_, _)
forEachHeader(items, headers) ==
    IF Len(items) = 0 THEN headers
    ELSE LET h == Head(items)
             parts == Split(h)
             next == IF Includes(h, ":")
                     THEN Put(headers, Trim(parts[1]), Trim(Join(Tail(parts))))
                     ELSE headers
         IN forEachHeader(Tail(items), next)

\* src/server.js processHeaders.
processHeaders(rawHeaders) ==
    LET headers == IF rawHeaders.kind = "list"
                   THEN forEachHeader(rawHeaders.items, {})
                   ELSE {}
    IN IF Cardinality(headers) = 0
       THEN Put(Put(headers, KAccept, VJson), KContentType, VJson)
       ELSE headers

\* First variant: headers built inline into config.headers, no defaults.
inlineHeadersV1(header) ==
    IF header.kind = "list" THEN forEachHeader(header.items, {}) ELSE {}

\* { ...rawHeaders }: own enumerable properties; of an array, its indices.
Spread(rawHeaders) ==
    CASE rawHeaders.kind = "map"  -> rawHeaders.entries
      [] rawHeaders.kind = "list" ->
            {<< <<ToString(i - 1)>>, rawHeaders.items[i] >> : i \in 1..Len(rawHeaders.items)}
      [] OTHER -> {}

\* Third variant processHeaders.
processHeadersV3(rawHeaders) ==
    LET h0 == Spread(rawHeaders)
        h1 == IF Falsy(h0, KAccept) THEN Put(h0, KAccept, VJson) ELSE h0
    IN IF Falsy(h1, KContentType) /\ Falsy(h1, KContentTypeLower)
       THEN Put(h1, KContentType, VJson)
       ELSE h1

OutboundHeaders(v, header) ==
    CASE v = "server" -> processHeaders(header)
      [] v = "v1"     -> inlineHeadersV1(header)
      [] v = "v3"     -> processHeadersV3(header)

(***************************************************************************)
(* The outbound body (config.data), from api.body and the uppercased       *)
(* method.  NoBody stands for a config without a data property.            *)
(***************************************************************************)
\* src/server.js: postData !== undefined && postData !== null &&
\* requestMethod !== 'GET' && requestMethod !== 'HEAD'
requestData(requestMethod, postData) ==
    IF postData.t # "undefined" /\ postData.t # "null"
       /\ requestMethod # "GET" /\ requestMethod # "HEAD"
    THEN IF postData.t = "string" THEN tryParseJson(postData.s) ELSE postData
    ELSE NoBody

\* First variant: only GET is excluded.
requestDataV1(requestMethod, postData) ==
    IF postData.t # "undefined" /\ postData.t # "null" /\ requestMethod # "GET"
    THEN IF postData.t = "string" THEN tryParseJson(postData.s) ELSE postData
    ELSE NoBody

\* Object.keys(postData).length > 0
HasKeys(postData) ==
    CASE postData.t = "object" -> postData.o # {}
      [] postData.t = "string" -> postData.s # ""
      [] OTHER -> FALSE

\* Third variant: body: postData = {} by default, sent only when non-empty.
requestDataV3(requestMethod, postData) ==
    LET pd == IF postData.t = "undefined" THEN BObj({}) ELSE postData
    IN IF requestMethod # "GET" /\ requestMethod # "HEAD"
          /\ pd.t # "null" /\ ~(pd.t = "string" /\ pd.s = "") /\ HasKeys(pd)
       THEN IF pd.t = "string" THEN tryParseJson(pd.s) ELSE pd
       ELSE NoBody

OutboundData(v, requestMethod, postData) ==
    CASE v = "server" -> requestData(requestMethod, postData)
      [] v = "v1"     -> requestDataV1(requestMethod, postData)
      [] v = "v3"     -> requestDataV3(requestMethod, postData)

(***************************************************************************)
(* Inbound requests.                                                       *)
(***************************************************************************)
AbsoluteUrl == "http://example.com/a"
SchemelessUrl == "example.com/a"
GarbageUrl == "not a url"

Urls == {AbsoluteUrl, SchemelessUrl, GarbageUrl, Undefined}

Methods == {"GET", "get", "HEAD", "POST", "Post", "FOO", NumberFive, Undefined}

XTraceList ==
    HList(<< <<"Content-Type", ":", " ", "text/plain">>, <<"X-Trace", ":", "abc", ":", "def">> >>)

XAMap == HMap({ << <<"X-A">>, <<"1">> >> })

RequestHeaders == {HAbsent, XTraceList, HMap({}), XAMap}

Bodies ==
    {BAbsent, BNull, BObj({}), BObj({<<"a", 1>>}), BStr(JsonObjText), BStr(NotJsonText)}

NoApi == [url |-> Undefined, method |-> Undefined, header |-> HAbsent, body |-> BAbsent]

\* The document the raw body decodes to: not decodable at all, the value
\* null, an object without an api member, or an envelope.
Malformed == [form |-> "malformed", api |-> NoApi]
DocNull == [form |-> "null", api |-> NoApi]
DocNoApi == [form |-> "noapi", api |-> NoApi]
Envelope(api) == [form |-> "envelope", api |-> api]

Envelopes ==
    {Envelope([url |-> u, method |-> m, header |-> h, body |-> b]) :
        u \in Urls, m \in Methods, h \in RequestHeaders, b \in Bodies}

Documents == {Malformed, DocNull, DocNoApi} \cup Envelopes

JsonType == "application/json"
XmlType == "application/xml"

\* The types bodyParser.text / express.json / express.text read the body of.
ParsedTypes == {JsonType, XmlType, "text/xml"}

\* An XML document decodes every leaf to a string (or to the empty-tag value),
\* never to a number; emptyTag: null is set in server.js and the third variant
\* only.
Decodable(v, ctype, doc) ==
    ctype = XmlType =>
        /\ doc.api.method # NumberFive
        /\ (v = "v1" => doc.api.body # BNull)

Requests(v) ==
    {r \in [contentType : {JsonType, XmlType}, oversize : {FALSE}, doc : Documents] :
        Decodable(v, r.contentType, r.doc)}
    \cup {[contentType |-> c, oversize |-> FALSE, doc |-> Malformed] :
        c \in {"text/plain", Undefined}}
    \cup {[contentType |-> c, oversize |-> TRUE, doc |-> Malformed] :
        c \in {JsonType, XmlType}}

NoRequest == [contentType |-> Undefined, oversize |-> FALSE, doc |-> Malformed]

(***************************************************************************)
(* Outbound call outcomes and inbound responses.                           *)
(***************************************************************************)
Timeout == 10000

NotFoundBody == "{\"msg\":\"not found\"}"

TargetStatuses == {200, 201, 404, 500}
TargetBodies == {NotFoundBody, "<html>"}
TargetTypes == {JsonType, Undefined}

TargetResponse(st, ct, d) == [kind |-> "response", status |-> st, ctype |-> ct, data |-> d, code |-> ""]
TransportError(code) == [kind |-> "error", status |-> 0, ctype |-> Undefined, data |-> "", code |-> code]
NoOutcome == [kind |-> "none", status |-> 0, ctype |-> Undefined, data |-> "", code |-> ""]

\* res.status(st).json({ error, details })
ErrorResponse(st, msg, withDetails) ==
    [status |-> st, shape |-> "error", error |-> msg, errors |-> {},
     details |-> withDetails, data |-> "", ctype |-> JsonType]

\* res.status(400).json({ errors: errors.array() })
ErrorsResponse(msgs) ==
    [status |-> 400, shape |-> "errors", error |-> "", errors |-> msgs,
     details |-> FALSE, data |-> "", ctype |-> JsonType]

\* res.status(st).send(data) with the target's data
MirrorResponse(st, ct, d) ==
    [status |-> st, shape |-> "mirror", error |-> "", errors |-> {},
     details |-> FALSE, data |-> d, ctype |-> ct]

\* express's own final error handler (no error middleware registered)
DefaultErrorPage(st) ==
    [status |-> st, shape |-> "default", error |-> "", errors |-> {},
     details |-> FALSE, data |-> "", ctype |-> "text/html"]

(***************************************************************************)
(* express-validator.  body(path) selects the field from req.body, which   *)
(* is whatever the body parser left there: in server.js always the raw     *)
(* text (bodyParser.text), in the third variant the object express.json    *)
(* produced, or the raw text for XML (express.text).  The decoded document *)
(* in req.parsedBody is not what the chain reads.  A path into a string    *)
(* selects undefined, which the standard validators see as ''.             *)
(***************************************************************************)
\* req.body when it is the raw text of the request.
RawText == [form |-> "text", api |-> NoApi]

\* req.body as the validators see it.
ValidatedBody(v, r) ==
    IF v = "v3" /\ r.contentType = JsonType THEN r.doc ELSE RawText

\* _.get(req.body, 'api.<name>')
FieldUrl(b) == IF b.form = "envelope" THEN b.api.url ELSE Undefined
FieldMethod(b) == IF b.form = "envelope" THEN b.api.method ELSE Undefined
FieldHeader(b) == IF b.form = "envelope" THEN b.api.header ELSE HAbsent

\* validator.js isURL with its default options (protocol not required).
isURL(u) == u \in {AbsoluteUrl, SchemelessUrl}

\* isIn([...]): membership of the value as written, case-sensitive.
isIn(m, list) == m \in list

\* src/server.js validation chain.
validationErrors(b) ==
    (IF isURL(FieldUrl(b)) THEN {} ELSE {"Invalid value"})
    \cup (IF isIn(FieldMethod(b), AllowedMethods) THEN {} ELSE {"Invalid HTTP method"})

\* Third variant validation chain.
validationErrorsV3(b) ==
    (IF isURL(FieldUrl(b)) THEN {} ELSE {"Invalid URL format"})
    \cup (IF isIn(FieldMethod(b), AllowedMethods) THEN {} ELSE {"Invalid HTTP method"})
    \cup (IF FieldHeader(b).kind \in {"undefined", "map"} THEN {}
          ELSE {"Headers must be an object"})

(***************************************************************************)
(* The state machine.                                                      *)
(***************************************************************************)
Init ==
    /\ variant \in Variants
    /\ isProduction \in BOOLEAN
    /\ pc = "idle"
    /\ req = NoRequest
    /\ parsedBody = Malformed
    /\ responses = <<>>
    /\ calls = <<>>
    /\ outcome = NoOutcome
    /\ thrown = 0
    /\ fn = [kind |-> "none"]

Respond(r) ==
    /\ responses' = Append(responses, r)
    /\ pc' = "responded"

\* An inbound POST / arrives.
Receive ==
    /\ pc = "idle"
    /\ \E r \in Requests(variant) : req' = r
    /\ pc' = "bodyParser"
    /\ UNCHANGED <<variant, isProduction, parsedBody, responses, calls, outcome, thrown, fn>>

\* bodyParser.text (server.js, first variant); express.json and express.text
\* (third variant), which decode JSON here and fail on a malformed or
\* non-object document.
BodyParser ==
    /\ pc = "bodyParser"
    /\ IF req.contentType \in ParsedTypes /\ req.oversize
       THEN thrown' = 413 /\ pc' = "errorHandler"
       ELSE IF variant = "v3" /\ req.contentType = JsonType
               /\ req.doc.form \in {"malformed", "null"}
       THEN thrown' = 400 /\ pc' = "errorHandler"
       ELSE /\ thrown' = thrown
            /\ pc' = IF variant = "v1" THEN "handler" ELSE "contentType"
    /\ UNCHANGED <<variant, isProduction, req, parsedBody, responses, calls, outcome, fn>>

\* validateInput[0]: the Content-Type check.
ContentTypeCheck ==
    /\ pc = "contentType"
    /\ IF variant = "v3" /\ req.contentType = Undefined
       THEN Respond(ErrorResponse(400, "Content-Type header is required", FALSE))
       ELSE IF req.contentType \notin ParsedTypes
       THEN Respond(ErrorResponse(415, "Unsupported Content-Type", FALSE))
       ELSE pc' = "parseBody" /\ responses' = responses
    /\ UNCHANGED <<variant, isProduction, req, parsedBody, calls, outcome, thrown, fn>>

\* validateInput[1]: decode the body into req.parsedBody.
ParseBody ==
    /\ pc = "parseBody"
    /\ IF variant = "server"
       THEN IF req.doc.form = "malformed"
            THEN /\ Respond(ErrorResponse(400,
                        IF req.contentType = JsonType THEN "Invalid JSON input"
                        ELSE "Invalid XML input", TRUE))
                 /\ parsedBody' = parsedBody
            ELSE /\ parsedBody' = req.doc
                 /\ pc' = "validate"
                 /\ responses' = responses
       ELSE IF req.contentType # JsonType /\ req.doc.form = "malformed"
            THEN /\ Respond(ErrorResponse(400, "Invalid input format", TRUE))
                 /\ parsedBody' = parsedBody
            ELSE /\ parsedBody' = req.doc
                 /\ pc' = "validate"
                 /\ responses' = responses
    /\ UNCHANGED <<variant, isProduction, req, calls, outcome, thrown, fn>>

\* ValidationResult with the return before res.status(400) missing: the
\* errors are reported and next() is called all the same.
ValidationResultNoReturn ==
    /\ pc = "validate"
    /\ LET errors == IF variant = "server"
                     THEN validationErrors(ValidatedBody(variant, req))
                     ELSE validationErrorsV3(ValidatedBody(variant, req))
       IN /\ pc' = "handler"
          /\ responses' = IF errors # {}
                          THEN Append(responses, ErrorsResponse(errors))
                          ELSE responses
    /\ UNCHANGED <<variant, isProduction, req, parsedBody, calls, outcome, thrown, fn>>

\* The express-validator chain and the validation result middleware.
ValidationResult ==
    /\ pc = "validate"
    /\ LET errors == IF variant = "server"
                     THEN validationErrors(ValidatedBody(variant, req))
                     ELSE validationErrorsV3(ValidatedBody(variant, req))
       IN IF errors # {}
          THEN Respond(ErrorsResponse(errors))
          ELSE pc' = "handler" /\ responses' = responses
    /\ UNCHANGED <<variant, isProduction, req, parsedBody, calls, outcome, thrown, fn>>

\* The error caught when destructuring or method.toUpperCase() throws.
TypeError == [kind |-> "exception", status |-> 0, ctype |-> Undefined, data |-> "", code |-> ""]

Is2xx(st) == st >= 200 /\ st < 300

\* src/server.js: the catch block of the proxy endpoint.
proxyCatch(error, prod) ==
    IF error.code = "ECONNABORTED" THEN ErrorResponse(504, "Request timeout", FALSE)
    ELSE IF error.code = "ENOTFOUND" THEN ErrorResponse(502, "Failed to resolve host", FALSE)
    ELSE ErrorResponse(500, "Internal proxy error", ~prod)

\* Third variant: the same, after mirroring error.response when there is one.
proxyCatchV3(error, prod) ==
    IF error.kind = "response" THEN MirrorResponse(error.status, error.ctype, error.data)
    ELSE IF error.code = "ECONNABORTED" THEN ErrorResponse(504, "Request timeout", FALSE)
    ELSE IF error.code = "ENOTFOUND" THEN ErrorResponse(502, "Failed to resolve host", FALSE)
    ELSE ErrorResponse(500, "Internal proxy error", ~prod)

\* First variant: error.response, error.request, or a setup error.
catchV1(error) ==
    IF error.kind = "response" THEN MirrorResponse(error.status, error.ctype, error.data)
    ELSE IF error.kind = "error"
    THEN ErrorResponse(500, "No response received from target server", FALSE)
    ELSE ErrorResponse(500, "error.message", FALSE)

\* What the handler sends once the awaited axios call has ended with o.
\* server.js sets validateStatus: () => true; the variants keep axios's
\* default, which rejects every status outside 2xx with error.response.
relayResult(v, prod, o) ==
    CASE v = "server" ->
            IF o.kind = "response"
            THEN MirrorResponse(o.status,
                    IF o.ctype = Undefined THEN "application/octet-stream" ELSE o.ctype,
                    o.data)
            ELSE proxyCatch(o, prod)
      [] v = "v1" ->
            IF o.kind = "response" /\ Is2xx(o.status)
            THEN MirrorResponse(200,
                    IF o.ctype = JsonType THEN JsonType ELSE "text/plain", o.data)
            ELSE catchV1(o)
      [] v = "v3" ->
            IF o.kind = "response" /\ Is2xx(o.status)
            THEN MirrorResponse(o.status, o.ctype, o.data)
            ELSE proxyCatchV3(o, prod)

\* The axios config the handler builds from a decoded api member.
axiosConfig(v, api) ==
    LET requestMethod == ToUpperCase(IF v = "v3" /\ api.method = Undefined
                                     THEN "GET" ELSE api.method)
        header == IF api.header.kind # "undefined" THEN api.header
                  ELSE IF v = "v3" THEN HMap({}) ELSE HList(<<>>)
    IN [method |-> requestMethod,
        url |-> api.url,
        headers |-> OutboundHeaders(v, header),
        data |-> OutboundData(v, requestMethod, api.body),
        timeout |-> IF v = "v1" THEN 0 ELSE Timeout]

\* How an issued call can end: any response of the target, or a transport
\* error.  A timeout is raised only when the config sets one; a certificate
\* error only when the agent verifies certificates.
Outcomes(v, prod, config) ==
    {TargetResponse(st, ct, d) : st \in TargetStatuses, ct \in TargetTypes, d \in TargetBodies}
    \cup {TransportError("ENOTFOUND"), TransportError("ECONNREFUSED")}
    \cup (IF config.timeout > 0 THEN {TransportError("ECONNABORTED")} ELSE {})
    \cup (IF v # "v1" /\ prod THEN {TransportError("DEPTH_ZERO_SELF_SIGNED_CERT")} ELSE {})

\* app.post('/') of server.js and of the third variant, up to await axios(config).
ProxyHandler ==
    /\ pc = "handler"
    /\ variant # "v1"
    /\ IF parsedBody.form # "envelope"
          \/ ~IsString(IF variant = "v3" /\ parsedBody.api.method = Undefined
                       THEN "GET" ELSE parsedBody.api.method)
       THEN /\ Respond(relayResult(variant, isProduction, TypeError))
            /\ calls' = calls
       ELSE /\ calls' = Append(calls, axiosConfig(variant, parsedBody.api))
            /\ pc' = "awaiting"
            /\ responses' = responses
    /\ UNCHANGED <<variant, isProduction, req, parsedBody, outcome, thrown, fn>>

\* app.post('/') of the first variant, up to await axios(config).
HandlerV1 ==
    /\ pc = "handler"
    /\ variant = "v1"
    /\ IF req.contentType \notin {JsonType, XmlType, "text/xml"}
       THEN /\ Respond(ErrorResponse(415, "Unsupported Content-Type", FALSE))
            /\ UNCHANGED <<parsedBody, calls>>
       ELSE IF req.doc.form = "malformed"
       THEN /\ Respond(ErrorResponse(400,
                    IF req.contentType = JsonType THEN "Invalid JSON input"
                    ELSE "Invalid XML input", FALSE))
            /\ UNCHANGED <<parsedBody, calls>>
       ELSE IF req.doc.form # "envelope"
       THEN /\ Respond(ErrorResponse(400, "Invalid input format", FALSE))
            /\ parsedBody' = req.doc
            /\ calls' = calls
       ELSE IF ~Truthy(req.doc.api.url) \/ ~Truthy(req.doc.api.method)
       THEN /\ Respond(ErrorResponse(400, "Missing required fields: 'url' or 'method'", FALSE))
            /\ parsedBody' = req.doc
            /\ calls' = calls
       ELSE IF ~IsString(req.doc.api.method)
       THEN /\ Respond(relayResult(variant, isProduction, TypeError))
            /\ parsedBody' = req.doc
            /\ calls' = calls
       ELSE /\ parsedBody' = req.doc
            /\ calls' = Append(calls, axiosConfig(variant, req.doc.api))
            /\ pc' = "awaiting"
            /\ responses' = responses
    /\ UNCHANGED <<variant, isProduction, req, outcome, thrown, fn>>

\* The awaited call ends and the handler (or its catch block) responds.
OutboundComplete ==
    /\ pc = "awaiting"
    /\ \E o \in Outcomes(variant, isProduction, calls[Len(calls)]) :
          /\ outcome' = o
          /\ Respond(relayResult(variant, isProduction, o))
    /\ UNCHANGED <<variant, isProduction, req, parsedBody, calls, thrown, fn>>

\* The error handling middleware of server.js and the third variant; the
\* first variant registers none, and express answers with the error's status.
ErrorMiddleware ==
    /\ pc = "errorHandler"
    /\ IF variant = "v1"
       THEN Respond(DefaultErrorPage(thrown))
       ELSE Respond(ErrorResponse(500, "Internal server error", ~isProduction))
    /\ UNCHANGED <<variant, isProduction, req, parsedBody, calls, outcome, thrown, fn>>

\* The request is over; nothing of it is kept.
Done ==
    /\ pc = "responded"
    /\ pc' = "idle"
    /\ req' = NoRequest
    /\ parsedBody' = Malformed
    /\ responses' = <<>>
    /\ calls' = <<>>
    /\ outcome' = NoOutcome
    /\ thrown' = 0
    /\ UNCHANGED <<variant, isProduction, fn>>

Next ==
    \/ Receive
    \/ BodyParser
    \/ ContentTypeCheck
    \/ ParseBody
    \/ ValidationResult
    \/ ProxyHandler
    \/ HandlerV1
    \/ OutboundComplete
    \/ ErrorMiddleware
    \/ Done

Spec == Init /\ [][Next]_vars

(***************************************************************************)
(* The helper functions on their own: processHeaders and the body          *)
(* materialisation of each program applied to inputs drawn from bounded    *)
(* sets.  In server.js no request gets past the validation chain, so its   *)
(* helpers are exercised here rather than through the request pipeline.    *)
(***************************************************************************)
SeqsUpTo(S, n) == UNION {[1..k -> S] : k \in 0..n}

AcceptMap == HMap({ <<KAccept, <<"text/html">> >>, <<KContentTypeLower, <<"text/plain">> >> })

HelperHeaders ==
    {HList(items) : items \in SeqsUpTo(HeaderStrings, MaxHeaderItems)}
    \cup {HMap({}), XAMap, AcceptMap}

RequestMethods == {ToUpperCase(m) : m \in {x \in Methods : IsString(x)}}

HelperInit ==
    /\ variant \in Variants
    /\ isProduction = FALSE
    /\ pc = "idle"
    /\ req = NoRequest
    /\ parsedBody = Malformed
    /\ responses = <<>>
    /\ calls = <<>>
    /\ outcome = NoOutcome
    /\ thrown = 0
    /\ \/ \E h \in HelperHeaders :
             fn = [kind |-> "headers", arg |-> h, done |-> FALSE, result |-> {}]
       \/ \E m \in RequestMethods, b \in Bodies :
             fn = [kind |-> "body", method |-> m, arg |-> b, done |-> FALSE, result |-> NoBody]

ApplyProcessHeaders ==
    /\ fn.kind = "headers" /\ ~fn.done
    /\ fn' = [fn EXCEPT !.done = TRUE, !.result = OutboundHeaders(variant, fn.arg)]
    /\ UNCHANGED <<variant, isProduction, pc, req, parsedBody, responses, calls, outcome, thrown>>

ApplyRequestData ==
    /\ fn.kind = "body" /\ ~fn.done
    /\ fn' = [fn EXCEPT !.done = TRUE, !.result = OutboundData(variant, fn.method, fn.arg)]
    /\ UNCHANGED <<variant, isProduction, pc, req, parsedBody, responses, calls, outcome, thrown>>

HelperNext == ApplyProcessHeaders \/ ApplyRequestData

HelperSpec == HelperInit /\ [][HelperNext]_vars

(***************************************************************************)
(* Fairness: every middleware step runs once it is the request's turn, and *)
(* an awaited outbound call ends when its config sets a timeout (10 s in   *)
(* server.js and the third variant; the first variant sets none).          *)
(***************************************************************************)
TimedOutboundComplete == OutboundComplete /\ calls[Len(calls)].timeout > 0

LiveSpec ==
    /\ Init
    /\ [][Next]_vars
    /\ WF_vars(BodyParser)
    /\ WF_vars(ContentTypeCheck)
    /\ WF_vars(ParseBody)
    /\ WF_vars(ValidationResult)
    /\ WF_vars(ProxyHandler)
    /\ WF_vars(HandlerV1)
    /\ WF_vars(ErrorMiddleware)
    /\ WF_vars(TimedOutboundComplete)

(***************************************************************************)
(* Properties.                                                             *)
(***************************************************************************)
Answered == pc = "responded"

Response == responses[Len(responses)]

\* A request whose body is a valid envelope in the sense of the specification.
ValidEnvelope(r) ==
    /\ r.contentType \in ParsedTypes
    /\ ~r.oversize
    /\ r.doc.form = "envelope"
    /\ r.doc.api.url = AbsoluteUrl
    /\ r.doc.api.method \in AllowedMethods

\* A request with a client input error in the sense of the specification.
UnsupportedType(r) == r.contentType \notin ParsedTypes

ClientInputError(r) ==
    /\ ~r.oversize
    /\ \/ UnsupportedType(r)
       \/ r.doc.form # "envelope"
       \/ r.doc.api.url # AbsoluteUrl
       \/ r.doc.api.method = Undefined
       \/ IsString(r.doc.api.method) /\ ToUpperCase(r.doc.api.method) \notin AllowedMethods

\* C1: in server.js, a request carrying a valid envelope has, once answered,
\* caused exactly one outbound call, and no request ever causes more than one.
C1_ExactlyOneOutboundCall ==
    variant = "server" =>
        /\ Len(calls) <= 1
        /\ (Answered /\ ValidEnvelope(req)) => Len(calls) = 1

\* C2: in server.js and the first variant, a request with a client input
\* error never causes an outbound call and is answered 400 (415 for an
\* unsupported content type).
C2_ClientErrorRejected ==
    (variant \in {"server", "v1"} /\ ClientInputError(req)) =>
        /\ calls = <<>>
        /\ Answered => Response.status = IF UnsupportedType(req) THEN 415 ELSE 400

\* C3: in server.js and the first variant, an outbound call whose method is
\* GET or HEAD carries no body.
C3_GetHeadCarryNoBody ==
    variant \in {"server", "v1"} =>
        \A i \in 1..Len(calls) :
            calls[i].method \in {"GET", "HEAD"} => calls[i].data = NoBody

\* C4: in server.js and the first variant, when the outbound call ended with
\* an HTTP response of the target, the inbound response has the target's
\* status and body and is not the relay's own error shape.
C4_TargetResponseMirrored ==
    (variant \in {"server", "v1"} /\ Answered /\ outcome.kind = "response") =>
        /\ Response.shape = "mirror"
        /\ Response.status = outcome.status
        /\ Response.data = outcome.data

\* C5: in server.js and the first variant, when the outbound call ended
\* without a response, the inbound status is 504 for a timeout, 502 for a
\* resolution failure, and 502 or 504 for any other transport failure.
C5_TransportFailureStatus ==
    (variant \in {"server", "v1"} /\ Answered /\ outcome.kind = "error") =>
        CASE outcome.code = "ECONNABORTED" -> Response.status = 504
          [] outcome.code = "ENOTFOUND"    -> Response.status = 502
          [] OTHER                         -> Response.status \in {502, 504}

\* The header normalisation the specification describes: the list form split
\* on the first colon with name and value trimmed, entries without a colon
\* dropped, the last occurrence of a name winning; the mapping form used as
\* it is; the two defaults exactly when the result is empty.
RECURSIVE NormalizedList(_, _)
NormalizedList(items, acc) ==
    IF Len(items) = 0 THEN acc
    ELSE LET h == Head(items)
             i == FirstIndex(h, ":")
         IN NormalizedList(Tail(items),
                IF Includes(h, ":")
                THEN Put(acc, Trim(SubSeq(h, 1, i - 1)), Trim(SubSeq(h, i + 1, Len(h))))
                ELSE acc)

NormalizedHeaders(raw) ==
    LET m == CASE raw.kind = "list" -> NormalizedList(raw.items, {})
               [] raw.kind = "map"  -> raw.entries
               [] OTHER             -> {}
    IN IF m = {} THEN {<<KAccept, VJson>>, <<KContentType, VJson>>} ELSE m

\* C6: processHeaders of server.js and of the third variant returns the
\* normalisation of api.header described by the specification.
C6_HeadersNormalized ==
    (variant \in {"server", "v3"} /\ fn.kind = "headers" /\ fn.done) =>
        fn.result = NormalizedHeaders(fn.arg)

\* The outbound body the specification describes for a method other than
\* GET and HEAD.
MaterializedBody(b) ==
    CASE b.t \in {"undefined", "null"}       -> NoBody
      [] b.t = "object" /\ b.o = {}          -> NoBody
      [] b.t = "string" /\ b.s \in JsonTexts -> JsonParse(b.s)
      [] OTHER                               -> b

\* C7: in server.js, for a method other than GET and HEAD the outbound body
\* is none for an absent, null or empty-object api.body, the parsed value for
\* a string that parses as JSON, and api.body itself otherwise.
C7_BodyMaterialized ==
    (variant = "server" /\ fn.kind = "body" /\ fn.done /\ fn.method \notin {"GET", "HEAD"}) =>
        fn.result = MaterializedBody(fn.arg)

\* C8: in server.js, an otherwise valid envelope whose method is a case
\* variant of an allowed method is accepted and called with the uppercased
\* method; only a method matching none of them is answered "Invalid HTTP
\* method".
C8_MethodCaseInsensitive ==
    (/\ variant = "server" /\ Answered
     /\ req.contentType \in ParsedTypes /\ ~req.oversize
     /\ req.doc.form = "envelope" /\ req.doc.api.url = AbsoluteUrl
     /\ IsString(req.doc.api.method)) =>
        IF ToUpperCase(req.doc.api.method) \in AllowedMethods
        THEN /\ Len(calls) = 1
             /\ calls[1].method = ToUpperCase(req.doc.api.method)
             /\ "Invalid HTTP method" \notin Response.errors
        ELSE /\ calls = <<>>
             /\ Response.status = 400

\* C9: a request never has more than one response, it has exactly one when
\* its handling is over, and (where the outbound call has a timeout) every
\* received request is eventually answered.
C9_ExactlyOneResponse ==
    /\ [](Len(responses) <= 1 /\ (Answered <=> Len(responses) = 1))
    /\ ((pc = "bodyParser" /\ variant # "v1") ~> Answered)

\* C9 witness: an outbound call that timed out was answered exactly once.
C9_AnsweredAfterTimeout ==
    /\ Answered
    /\ Len(responses) = 1
    /\ Len(calls) = 1
    /\ outcome.code = "ECONNABORTED"

\* C10: in server.js, every response the relay produces itself has the shape
\* {error, details?}, and carries details only outside production.
C10_ErrorShapeAndDetails ==
    (variant = "server" /\ Answered /\ Response.shape # "mirror") =>
        /\ Response.shape = "error"
        /\ Response.details => ~isProduction

=============================================================================
